---- MODULE Spec2Model ----
(***************************************************************************)
(* mne/datasets/_fsaverage/base.py: fetch_fsaverage, the subjects-directory *)
(* resolver _set_montage_coreg_path and the collaborators they call.       *)
(*                                                                         *)
(* Paths are sequences of components; an absolute path starts with "/".    *)
(* The filesystem is keyed by absolute paths.  None is the empty sequence. *)
(***************************************************************************)
EXTENDS Naturals, Sequences, FiniteSets, TLC

VARIABLES
    config,        \* persisted SUBJECTS_DIR entry (None when unset)
    mne_data,      \* persisted/environment MNE_DATA entry (None when unset)
    dirs,          \* existing directories (absolute paths)
    files,         \* existing files: absolute path -> content
    pc,            \* position of the single caller
    call,          \* [op, arg] of the call in progress or last finished
    subjects_dir,  \* fetch_fsaverage local: absolute subjects directory
    fs_dir,        \* fetch_fsaverage local: subjects_dir/fsaverage
    idx,           \* index of the descriptor being synchronised
    sync,          \* arguments of the synchroniser run in progress
    need,          \* manifest entries still to extract in this run
    temp,          \* the temporary downloaded archive (NoArchive when absent)
    verified,      \* hash check of the temporary archive has passed
    syncErr,       \* error pending in the synchroniser run
    result,        \* outcome of the last finished call
    hist,          \* observations of the current call
    prev,          \* summary of the call finished just before the current one
    calls,         \* number of calls started
    placed         \* number of files placed by the user

vars == <<config, mne_data, dirs, files, pc, call, subjects_dir, fs_dir, idx,
          sync, need, temp, verified, syncErr, result, hist, prev, calls,
          placed>>

----------------------------------------------------------------------------
(* Bounds *)

MaxCalls == 2
MaxPlaced == 2

----------------------------------------------------------------------------
(* Paths *)

None == <<>>

IsAbs(p) == Len(p) > 0 /\ p[1] = "/"

\* os.path.join(p, q): an absolute q replaces p
join(p, q) == IF IsAbs(q) THEN q ELSE p \o q

\* the working directory of the process
Cwd == <<"/", "cwd">>

\* os.path.abspath(p): a relative p is taken from the working directory
abspath(p) == IF IsAbs(p) THEN p ELSE join(Cwd, p)

\* a path and all its parents
Parents(p) == {SubSeq(p, 1, k) : k \in 1..Len(p)}

\* os.makedirs(p, exist_ok=True) on the directory set ds
makedirs(ds, p) == ds \cup Parents(abspath(p))

isfile(fs, p) == abspath(p) \in DOMAIN fs

----------------------------------------------------------------------------
(* Configuration store and base data directory (mne.utils) *)

HomeMneData == <<"/", "home", "mne_data">>

\* get_config(key): the persisted value, None when unset
get_config(cfg) == cfg

\* set_config(key, value): the value the entry holds afterwards
set_config(cfg, value) == value

\* get_subjects_dir(subjects_dir, raise_error=False)
get_subjects_dir(sd, cfg) == IF sd = None THEN get_config(cfg) ELSE sd

\* _get_path(None, 'MNE_DATA', name): the base data directory
_get_path(md) == IF get_config(md) # None THEN get_config(md) ELSE HomeMneData

----------------------------------------------------------------------------
(* Errors *)

NoErr == [type |-> "none", old |-> None, new |-> None]

ValueError(old, new) == [type |-> "ValueError", old |-> old, new |-> new]

Failure(type) == [type |-> type, old |-> None, new |-> None]

----------------------------------------------------------------------------
(* Path resolver *)

FolderName == <<"MNE-fsaverage-data">>

\* variant: the default is computed whenever the caller passes None, without
\* looking at the persisted value
_get_create_subjects_dir_default_first(sd, cfg, md, ds) ==
    LET dflt == join(_get_path(md), FolderName)
    IN  IF sd = None
        THEN [dir |-> dflt, dirs |-> makedirs(ds, dflt), fresh |-> TRUE]
        ELSE [dir |-> sd, dirs |-> ds, fresh |-> FALSE]

\* variant: the default directory is computed but not created
_get_create_subjects_dir_no_makedirs(sd, cfg, md, ds) ==
    LET got == get_subjects_dir(sd, cfg)
        dflt == join(_get_path(md), FolderName)
    IN  IF got = None
        THEN [dir |-> dflt, dirs |-> ds, fresh |-> TRUE]
        ELSE [dir |-> got, dirs |-> ds, fresh |-> FALSE]

\* variant: the resolved directory is created whatever its origin
_get_create_subjects_dir_always_makedirs(sd, cfg, md, ds) ==
    LET got == get_subjects_dir(sd, cfg)
        dflt == join(_get_path(md), FolderName)
    IN  IF got = None
        THEN [dir |-> dflt, dirs |-> makedirs(ds, dflt), fresh |-> TRUE]
        ELSE [dir |-> got, dirs |-> makedirs(ds, got), fresh |-> FALSE]

\* variant: the default is computed and created before the lookup
_get_create_subjects_dir_eager_default(sd, cfg, md, ds) ==
    LET got == get_subjects_dir(sd, cfg)
        dflt == join(_get_path(md), FolderName)
    IN  IF got = None
        THEN [dir |-> dflt, dirs |-> makedirs(ds, dflt), fresh |-> TRUE]
        ELSE [dir |-> got, dirs |-> makedirs(ds, dflt), fresh |-> TRUE]

\* _get_create_subjects_dir(subjects_dir): the resolved directory, the
\* directories existing afterwards, and whether the default was computed
_get_create_subjects_dir(sd, cfg, md, ds) ==
    LET got == get_subjects_dir(sd, cfg)
        dflt == join(_get_path(md), FolderName)
    IN  IF got = None
        THEN [dir |-> dflt, dirs |-> makedirs(ds, dflt), fresh |-> TRUE]
        ELSE [dir |-> got, dirs |-> ds, fresh |-> FALSE]

\* variant: no comparison with the persisted value before set_config
_set_montage_coreg_path_no_check(sd, cfg, md, ds) ==
    LET got == _get_create_subjects_dir(sd, cfg, md, ds)
    IN  [raised |-> FALSE, value |-> got.dir, err |-> NoErr,
         config |-> set_config(cfg, got.dir), dirs |-> got.dirs,
         wrote |-> 1, fresh |-> got.fresh]

\* variant: set_config runs before the comparison
_set_montage_coreg_path_write_first(sd, cfg, md, ds) ==
    LET got == _get_create_subjects_dir(sd, cfg, md, ds)
        old_subjects_dir == get_subjects_dir(None, cfg)
    IN  IF old_subjects_dir # None /\ old_subjects_dir # got.dir
        THEN [raised |-> TRUE, value |-> None,
              err |-> ValueError(old_subjects_dir, got.dir),
              config |-> set_config(cfg, got.dir), dirs |-> got.dirs,
              wrote |-> 1, fresh |-> got.fresh]
        ELSE [raised |-> FALSE, value |-> got.dir, err |-> NoErr,
              config |-> set_config(cfg, got.dir), dirs |-> got.dirs,
              wrote |-> 1, fresh |-> got.fresh]

\* variant: the persisted value is compared with the argument as passed
_set_montage_coreg_path_compare_arg(sd, cfg, md, ds) ==
    LET got == _get_create_subjects_dir(sd, cfg, md, ds)
        old_subjects_dir == get_subjects_dir(None, cfg)
    IN  IF old_subjects_dir # None /\ old_subjects_dir # sd
        THEN [raised |-> TRUE, value |-> None,
              err |-> ValueError(old_subjects_dir, got.dir),
              config |-> cfg, dirs |-> got.dirs, wrote |-> 0,
              fresh |-> got.fresh]
        ELSE [raised |-> FALSE, value |-> got.dir, err |-> NoErr,
              config |-> set_config(cfg, got.dir), dirs |-> got.dirs,
              wrote |-> 1, fresh |-> got.fresh]

\* variant: any persisted value is a conflict
_set_montage_coreg_path_raise_if_set(sd, cfg, md, ds) ==
    LET got == _get_create_subjects_dir(sd, cfg, md, ds)
        old_subjects_dir == get_subjects_dir(None, cfg)
    IN  IF old_subjects_dir # None
        THEN [raised |-> TRUE, value |-> None,
              err |-> ValueError(old_subjects_dir, got.dir),
              config |-> cfg, dirs |-> got.dirs, wrote |-> 0,
              fresh |-> got.fresh]
        ELSE [raised |-> FALSE, value |-> got.dir, err |-> NoErr,
              config |-> set_config(cfg, got.dir), dirs |-> got.dirs,
              wrote |-> 1, fresh |-> got.fresh]

\* _set_montage_coreg_path(subjects_dir): outcome of one resolver call made
\* with configuration cfg, MNE_DATA md and directories ds
_set_montage_coreg_path(sd, cfg, md, ds) ==
    LET got == _get_create_subjects_dir(sd, cfg, md, ds)
        old_subjects_dir == get_subjects_dir(None, cfg)
    IN  IF old_subjects_dir # None /\ old_subjects_dir # got.dir
        THEN [raised |-> TRUE, value |-> None,
              err |-> ValueError(old_subjects_dir, got.dir),
              config |-> cfg, dirs |-> got.dirs, wrote |-> 0,
              fresh |-> got.fresh]
        ELSE [raised |-> FALSE, value |-> got.dir, err |-> NoErr,
              config |-> set_config(cfg, got.dir), dirs |-> got.dirs,
              wrote |-> 1, fresh |-> got.fresh]

----------------------------------------------------------------------------
(* Archive descriptors and manifests *)

RootUrl == "https://osf.io/3bxqt/download?revision=2"
BemUrl == "https://osf.io/7ve8g/download?revision=2"
RootHash == "5133fe92b7b8f03ae19219d5f46e4177"
BemHash == "608c438af6a15a19b66232323088b32d"

\* root.txt: paths relative to the subjects directory
RootManifest == << <<"fsaverage", "mri", "T1.mgz">>,
                   <<"fsaverage", "surf", "lh.white">> >>

\* bem.txt: paths relative to the fsaverage directory
BemManifest == << <<"bem", "fsaverage-head.fif">>,
                  <<"bem", "fsaverage-trans.fif">> >>

\* the manifest file at a manifest path
ReadManifest(manifest_path) ==
    IF manifest_path = "root.txt" THEN RootManifest ELSE BemManifest

Range(s) == {s[i] : i \in 1..Len(s)}

\* variant: both descriptors are given the subjects directory as destination
fsaverage_data_parts_same_destination(sdir) ==
    << [name |-> "root.zip", url |-> RootUrl, hash_ |-> RootHash,
        manifest |-> "root.txt", destination |-> sdir],
       [name |-> "bem.zip", url |-> BemUrl, hash_ |-> BemHash,
        manifest |-> "bem.txt", destination |-> sdir] >>

\* variant: the bem descriptor comes first
fsaverage_data_parts_bem_first(sdir) ==
    << [name |-> "bem.zip", url |-> BemUrl, hash_ |-> BemHash,
        manifest |-> "bem.txt", destination |-> join(sdir, <<"fsaverage">>)],
       [name |-> "root.zip", url |-> RootUrl, hash_ |-> RootHash,
        manifest |-> "root.txt", destination |-> sdir] >>

\* fsaverage_data_parts, in insertion order
fsaverage_data_parts(sdir) ==
    << [name |-> "root.zip", url |-> RootUrl, hash_ |-> RootHash,
        manifest |-> "root.txt", destination |-> sdir],
       [name |-> "bem.zip", url |-> BemUrl, hash_ |-> BemHash,
        manifest |-> "bem.txt", destination |-> join(sdir, <<"fsaverage">>)] >>

NoSync == [name |-> "", url |-> "", hash_ |-> "", manifest |-> "",
           destination |-> None]

\* variant: the manifest of the first descriptor is passed for every descriptor
SyncArgs_first_manifest(data) == [data EXCEPT !.manifest = "root.txt"]

\* variant: the subjects directory is passed as destination for every
\* descriptor
SyncArgs_subjects_dir(data) == [data EXCEPT !.destination = subjects_dir]

\* the arguments fetch_fsaverage passes to _manifest_check_download for data
SyncArgs(data) == data

----------------------------------------------------------------------------
(* Remote archives *)

NoArchive == [hash |-> "", members |-> {}, payload |-> ""]

\* entries the released archives hold besides the manifest's
ExtraMembers(url) ==
    IF url = RootUrl
    THEN {<<"fsaverage", "bem", "fsaverage-head.fif">>, <<"README">>}
    ELSE {<<"README">>}

ManifestOfUrl(url) == IF url = RootUrl THEN RootManifest ELSE BemManifest

\* the released archive, whose hash is the descriptor's
Released(url) ==
    [hash |-> IF url = RootUrl THEN RootHash ELSE BemHash,
     members |-> Range(ManifestOfUrl(url)) \cup ExtraMembers(url),
     payload |-> "released"]

\* the same entries with other bytes
Tampered(url) ==
    [hash |-> "00000000000000000000000000000000",
     members |-> Released(url).members, payload |-> "tampered"]

\* what a completed download of url may deliver
Served(url) == {Released(url), Tampered(url)}

----------------------------------------------------------------------------
(* Inputs *)

\* directories a caller may request
Requested == {None, <<"/", "a">>, <<"r">>}

\* values SUBJECTS_DIR may hold before the first call
InitConfigs == {None, <<"/", "a">>, join(HomeMneData, FolderName)}

\* values MNE_DATA may hold
InitMneData == {None, <<"/", "d">>}

\* subjects directories a user fills by hand
UserDirs == {<<"/", "a">>}

\* places where a user may put a file by hand
UserFiles ==
    UNION {{join(abspath(sd), n) : n \in Range(RootManifest)}
             \cup {join(join(abspath(sd), <<"fsaverage">>), n) :
                     n \in Range(BemManifest)} : sd \in UserDirs}

----------------------------------------------------------------------------
(* State *)

NoResult == [kind |-> "none", value |-> None, err |-> NoErr]

NoCall == [op |-> "none", arg |-> None]

NoPrev == [op |-> "none", arg |-> None, result |-> NoResult]

\* observations of a call that starts with configuration cfg, files fs and
\* directories ds
NewHist(cfg, fs, ds) ==
    [startConfig |-> cfg, startFiles |-> fs, startDirs |-> ds,
     resolved |-> None, fresh |-> FALSE, cfgWrites |-> 0,
     net |-> <<>>, checked |-> <<>>, verified |-> <<>>, extracted |-> {},
     failed |-> <<>>, syncFiles |-> fs, events |-> <<>>]

Init ==
    /\ config \in InitConfigs
    /\ mne_data \in InitMneData
    /\ dirs = {<<"/">>, Cwd}
    /\ files = <<>>
    /\ pc = "idle"
    /\ call = NoCall
    /\ subjects_dir = None
    /\ fs_dir = None
    /\ idx = 0
    /\ sync = NoSync
    /\ need = <<>>
    /\ temp = NoArchive
    /\ verified = FALSE
    /\ syncErr = NoErr
    /\ result = NoResult
    /\ hist = NewHist(config, files, dirs)
    /\ prev = NoPrev
    /\ calls = 0
    /\ placed = 0

locals == <<subjects_dir, fs_dir, idx, sync, need, temp, verified, syncErr>>

\* a call starts: the caller is idle and the call budget is not used up
StartCall(op, arg) ==
    /\ pc = "idle"
    /\ calls < MaxCalls
    /\ calls' = calls + 1
    /\ call' = [op |-> op, arg |-> arg]
    /\ prev' = [op |-> call.op, arg |-> call.arg, result |-> result]

\* a user puts a file at p by hand, between calls
UserPlacesFile(p) ==
    /\ pc = "idle"
    /\ placed < MaxPlaced
    /\ ~isfile(files, p)
    /\ files' = (p :> "user") @@ files
    /\ dirs' = dirs \cup Parents(SubSeq(p, 1, Len(p) - 1))
    /\ placed' = placed + 1
    /\ result' = NoResult
    /\ call' = NoCall
    /\ UNCHANGED <<config, mne_data, pc, locals, hist, prev, calls>>

----------------------------------------------------------------------------
(* _set_montage_coreg_path called directly *)

ResolverCall(req) ==
    /\ StartCall("resolver", req)
    /\ LET r == _set_montage_coreg_path(req, config, mne_data, dirs)
       IN  /\ config' = r.config
           /\ dirs' = r.dirs
           /\ result' = IF r.raised
                        THEN [kind |-> "raise", value |-> None, err |-> r.err]
                        ELSE [kind |-> "return", value |-> r.value,
                              err |-> NoErr]
           /\ hist' = [NewHist(config, files, dirs) EXCEPT
                         !.resolved = r.value, !.fresh = r.fresh,
                         !.cfgWrites = r.wrote,
                         !.events = <<[e |-> "resolve", d |-> ""]>>]
    /\ pc' = "idle"
    /\ UNCHANGED <<mne_data, files, locals, placed>>

----------------------------------------------------------------------------
(* fetch_fsaverage *)

Event(e, d) == [e |-> e, d |-> d]

ResetLocals ==
    /\ subjects_dir' = None
    /\ fs_dir' = None
    /\ idx' = 0
    /\ sync' = NoSync
    /\ need' = <<>>
    /\ temp' = NoArchive
    /\ verified' = FALSE
    /\ syncErr' = NoErr

\* line 68: the call starts by resolving the subjects directory; a resolver
\* error ends the call
FetchCall(req) ==
    /\ StartCall("fetch", req)
    /\ LET r == _set_montage_coreg_path(req, config, mne_data, dirs)
       IN  /\ config' = r.config
           /\ dirs' = r.dirs
           /\ hist' = [NewHist(config, files, dirs) EXCEPT
                         !.resolved = r.value, !.fresh = r.fresh,
                         !.cfgWrites = r.wrote,
                         !.events = <<Event("resolve", "")>>]
           /\ IF r.raised
              THEN /\ result' = [kind |-> "raise", value |-> None,
                                 err |-> r.err]
                   /\ pc' = "idle"
                   /\ UNCHANGED subjects_dir
              ELSE /\ result' = NoResult
                   /\ pc' = "makedirs"
                   /\ subjects_dir' = r.value
    /\ UNCHANGED <<mne_data, files, fs_dir, idx, sync, need, temp, verified,
                   syncErr, placed>>

\* variant: the subjects directory is used as the resolver returned it
FetchMakeDirs_no_abspath ==
    /\ pc = "makedirs"
    /\ subjects_dir' = subjects_dir
    /\ fs_dir' = join(subjects_dir', <<"fsaverage">>)
    /\ dirs' = makedirs(dirs, fs_dir')
    /\ idx' = 1
    /\ pc' = "loop"
    /\ hist' = [hist EXCEPT !.events = Append(@, Event("mkdir", ""))]
    /\ UNCHANGED <<config, mne_data, files, call, sync, need, temp, verified,
                   syncErr, result, prev, calls, placed>>

\* lines 69-71
FetchMakeDirs ==
    /\ pc = "makedirs"
    /\ subjects_dir' = abspath(subjects_dir)
    /\ fs_dir' = join(subjects_dir', <<"fsaverage">>)
    /\ dirs' = makedirs(dirs, fs_dir')
    /\ idx' = 1
    /\ pc' = "loop"
    /\ hist' = [hist EXCEPT !.events = Append(@, Event("mkdir", ""))]
    /\ UNCHANGED <<config, mne_data, files, call, sync, need, temp, verified,
                   syncErr, result, prev, calls, placed>>

\* lines 87-93: the next descriptor is handed to _manifest_check_download
FetchSyncCall ==
    /\ pc = "loop"
    /\ idx <= Len(fsaverage_data_parts(subjects_dir))
    /\ sync' = SyncArgs(fsaverage_data_parts(subjects_dir)[idx])
    /\ need' = <<>>
    /\ verified' = FALSE
    /\ pc' = "sync_check"
    /\ hist' = [hist EXCEPT !.syncFiles = files,
                            !.events = Append(@, Event("sync", sync'.name))]
    /\ UNCHANGED <<config, mne_data, dirs, files, call, subjects_dir, fs_dir,
                   idx, temp, syncErr, result, prev, calls, placed>>

\* variant: an error of _manifest_check_download is caught and the loop goes on
FetchAfterSync_swallow ==
    /\ pc = "after_sync"
    /\ idx' = idx + 1
    /\ pc' = "loop"
    /\ syncErr' = NoErr
    /\ UNCHANGED <<config, mne_data, dirs, files, call, hist, prev, calls,
                   placed, result, subjects_dir, fs_dir, sync, need, temp,
                   verified>>

\* variant: on an error the call undoes its configuration write and its
\* directories before raising
FetchAfterSync_rollback ==
    /\ pc = "after_sync"
    /\ IF syncErr # NoErr
       THEN /\ result' = [kind |-> "raise", value |-> None, err |-> syncErr]
            /\ pc' = "idle"
            /\ config' = hist.startConfig
            /\ dirs' = hist.startDirs
            /\ ResetLocals
       ELSE /\ idx' = idx + 1
            /\ pc' = "loop"
            /\ UNCHANGED <<result, subjects_dir, fs_dir, sync, need, temp,
                           verified, syncErr, config, dirs>>
    /\ UNCHANGED <<mne_data, files, call, hist, prev, calls, placed>>

\* lines 87-93: _manifest_check_download has ended; its error, if any,
\* propagates out of fetch_fsaverage, otherwise the loop goes on
FetchAfterSync ==
    /\ pc = "after_sync"
    /\ IF syncErr # NoErr
       THEN /\ result' = [kind |-> "raise", value |-> None, err |-> syncErr]
            /\ pc' = "idle"
            /\ ResetLocals
       ELSE /\ idx' = idx + 1
            /\ pc' = "loop"
            /\ UNCHANGED <<result, subjects_dir, fs_dir, sync, need, temp,
                           verified, syncErr>>
    /\ UNCHANGED <<config, mne_data, dirs, files, call, hist, prev, calls,
                   placed>>

\* variant: the return statement sits inside the loop body
FetchReturn_inside_loop ==
    /\ pc = "loop"
    /\ idx > 1
    /\ result' = [kind |-> "return", value |-> fs_dir, err |-> NoErr]
    /\ pc' = "idle"
    /\ ResetLocals
    /\ UNCHANGED <<config, mne_data, dirs, files, call, hist, prev, calls,
                   placed>>

\* line 94
FetchReturn ==
    /\ pc = "loop"
    /\ idx > Len(fsaverage_data_parts(subjects_dir))
    /\ result' = [kind |-> "return", value |-> fs_dir, err |-> NoErr]
    /\ pc' = "idle"
    /\ ResetLocals
    /\ UNCHANGED <<config, mne_data, dirs, files, call, hist, prev, calls,
                   placed>>

----------------------------------------------------------------------------
(* _manifest_check_download(destination, manifest_path, url, hash_) *)

Missing(fs, dest, names) ==
    SelectSeq(names, LAMBDA n : ~isfile(fs, join(dest, n)))

\* steps 1-2: read the manifest and look for each entry under destination
ManifestCheck ==
    /\ pc = "sync_check"
    /\ need' = Missing(files, sync.destination, ReadManifest(sync.manifest))
    /\ pc' = IF need' = <<>> THEN "after_sync" ELSE "download"
    /\ hist' = [hist EXCEPT
                  !.checked = Append(@, [d |-> sync.name,
                                          need |-> Range(need')])]
    /\ UNCHANGED <<config, mne_data, dirs, files, call, subjects_dir, fs_dir,
                   idx, sync, temp, verified, syncErr, result, prev, calls,
                   placed>>

\* step 3: the archive arrives in the temporary location
Download ==
    /\ pc = "download"
    /\ \E a \in Served(sync.url) :
         /\ temp' = a
         /\ pc' = "verify"
    /\ hist' = [hist EXCEPT !.net = Append(@, sync.name),
                            !.events = Append(@, Event("download", sync.name))]
    /\ UNCHANGED <<config, mne_data, dirs, files, call, subjects_dir, fs_dir,
                   idx, sync, need, verified, syncErr, result, prev, calls,
                   placed>>

\* step 3: the transfer fails
DownloadFails ==
    /\ pc = "download"
    /\ syncErr' = Failure("TransportError")
    /\ pc' = "cleanup"
    /\ hist' = [hist EXCEPT !.net = Append(@, sync.name),
                            !.failed = Append(@, Event("TransportError",
                                                       sync.name)),
                            !.events = Append(@, Event("download", sync.name))]
    /\ UNCHANGED <<config, mne_data, dirs, files, call, subjects_dir, fs_dir,
                   idx, sync, need, temp, verified, result, prev, calls,
                   placed>>

\* step 3: the archive's hash is compared with hash_
Verify ==
    /\ pc = "verify"
    /\ IF temp.hash = sync.hash_
       THEN /\ verified' = TRUE
            /\ pc' = "extract"
            /\ hist' = [hist EXCEPT
                          !.verified = Append(@, sync.name),
                          !.events = Append(@, Event("verify", sync.name))]
            /\ UNCHANGED syncErr
       ELSE /\ syncErr' = Failure("HashMismatch")
            /\ pc' = "cleanup"
            /\ hist' = [hist EXCEPT
                          !.failed = Append(@, Event("HashMismatch",
                                                     sync.name)),
                          !.events = Append(@, Event("verify", sync.name))]
            /\ UNCHANGED verified
    /\ UNCHANGED <<config, mne_data, dirs, files, call, subjects_dir, fs_dir,
                   idx, sync, need, temp, result, prev, calls, placed>>

\* step 4: the next missing entry is extracted into destination
ExtractOne ==
    /\ pc = "extract"
    /\ need # <<>>
    /\ LET p == abspath(join(sync.destination, Head(need)))
       IN  /\ files' = (p :> temp.payload) @@ files
           /\ dirs' = dirs \cup Parents(SubSeq(p, 1, Len(p) - 1))
           /\ hist' = [hist EXCEPT
                         !.extracted = @ \cup {p},
                         !.events = Append(@, Event("extract", sync.name))]
    /\ need' = Tail(need)
    /\ pc' = IF need' = <<>> THEN "cleanup" ELSE "extract"
    /\ UNCHANGED <<config, mne_data, call, subjects_dir, fs_dir, idx, sync,
                   temp, verified, syncErr, result, prev, calls, placed>>

\* step 4: the filesystem refuses the next entry
ExtractFails ==
    /\ pc = "extract"
    /\ need # <<>>
    /\ syncErr' = Failure("OSError")
    /\ pc' = "cleanup"
    /\ hist' = [hist EXCEPT !.failed = Append(@, Event("OSError", sync.name))]
    /\ UNCHANGED <<config, mne_data, dirs, files, call, subjects_dir, fs_dir,
                   idx, sync, need, temp, verified, result, prev, calls,
                   placed>>

\* variant: the temporary archive is removed only when the run succeeded
Cleanup_on_success_only ==
    /\ pc = "cleanup"
    /\ temp' = IF syncErr = NoErr THEN NoArchive ELSE temp
    /\ pc' = "after_sync"
    /\ hist' = [hist EXCEPT !.events = Append(@, Event("cleanup", sync.name))]
    /\ UNCHANGED <<config, mne_data, dirs, files, call, subjects_dir, fs_dir,
                   idx, sync, need, verified, syncErr, result, prev, calls,
                   placed>>

\* step 5: the temporary archive is removed, on success and on failure
Cleanup ==
    /\ pc = "cleanup"
    /\ temp' = NoArchive
    /\ pc' = "after_sync"
    /\ hist' = [hist EXCEPT !.events = Append(@, Event("cleanup", sync.name))]
    /\ UNCHANGED <<config, mne_data, dirs, files, call, subjects_dir, fs_dir,
                   idx, sync, need, verified, syncErr, result, prev, calls,
                   placed>>

----------------------------------------------------------------------------

Next ==
    \/ \E req \in Requested : ResolverCall(req)
    \/ \E req \in Requested : FetchCall(req)
    \/ FetchMakeDirs
    \/ FetchSyncCall
    \/ ManifestCheck
    \/ Download
    \/ DownloadFails
    \/ Verify
    \/ ExtractOne
    \/ ExtractFails
    \/ Cleanup
    \/ FetchAfterSync
    \/ FetchReturn
    \/ \E p \in UserFiles : UserPlacesFile(p)

Spec == Init /\ [][Next]_vars

\* a fresh installation: nothing persisted
FreshInit == Init /\ config = None /\ mne_data = None

\* the single thread of the caller keeps running: a call in progress takes
\* its next step
FairSpec == FreshInit /\ [][Next]_vars /\ WF_vars(Next)

----------------------------------------------------------------------------
(* Properties of the path resolver *)

\* a call of op has just ended
Ended(op) == pc = "idle" /\ call.op = op /\ result.kind # "none"

\* the resolver has just ended, called directly or by fetch_fsaverage
ResolverEnded ==
    \/ Ended("resolver")
    \/ Ended("fetch") /\ result.err.type = "ValueError"

\* the directory a call resolves to, before any comparison
ResolvedDir ==
    IF call.arg # None THEN call.arg
    ELSE IF hist.startConfig # None THEN hist.startConfig
    ELSE join(IF mne_data # None THEN mne_data ELSE HomeMneData, FolderName)

\* the default directory of this environment
DefaultDir == join(IF mne_data # None THEN mne_data ELSE HomeMneData,
                   FolderName)

\* C1: once the persisted SUBJECTS_DIR entry holds a value, no step of any
\* call of the resolver or of fetch_fsaverage changes it to another value.
C1_ConfigNeverChanges == [][config # None => config' = config]_vars

\* C1 witness: a call that asked for a directory other than the persisted
\* one has ended and the entry still holds the persisted value
C1_Witness ==
    /\ pc = "idle"
    /\ call.op \in {"resolver", "fetch"}
    /\ hist.startConfig # None
    /\ call.arg # None
    /\ call.arg # hist.startConfig
    /\ config = hist.startConfig

\* C2: when a persisted value exists and differs from the directory resolved
\* for the call, the resolver raises ValueError naming the persisted and the
\* resolved path, and the entry is not written.
C2_ConflictRaises ==
    (/\ pc = "idle"
     /\ call.op \in {"resolver", "fetch"}
     /\ hist.startConfig # None
     /\ hist.startConfig # ResolvedDir)
    => /\ result.kind = "raise"
       /\ result.err = ValueError(hist.startConfig, ResolvedDir)
       /\ hist.cfgWrites = 0
       /\ config = hist.startConfig

\* C2 witness: a direct resolver call has ended with the conflict error
C2_Witness ==
    /\ Ended("resolver")
    /\ result.err.type = "ValueError"
    /\ result.err.old # result.err.new

\* C3 as stated: with a persisted directory that differs from the default
\* of this environment, a call that leaves the directory to the default
\* (requested = None) raises the conflict error naming both and writes
\* nothing.
C3_DefaultConflictRaises ==
    (/\ Ended("resolver")
     /\ call.arg = None
     /\ hist.startConfig # None
     /\ hist.startConfig # DefaultDir)
    => /\ result.kind = "raise"
       /\ result.err = ValueError(hist.startConfig, DefaultDir)
       /\ hist.cfgWrites = 0

\* C3 amended: with a persisted directory the default is never computed; the
\* resolver raises exactly when the caller passes an explicit directory that
\* differs from the persisted one, the error names the persisted and the
\* passed directory, and nothing is written.
C3_ExplicitConflictRaises ==
    (ResolverEnded /\ hist.startConfig # None)
    => /\ ~hist.fresh
       /\ dirs = hist.startDirs
       /\ (result.kind = "raise")
            <=> (call.arg # None /\ call.arg # hist.startConfig)
       /\ result.kind = "raise"
            => /\ result.err = ValueError(hist.startConfig, call.arg)
               /\ hist.cfgWrites = 0
               /\ config = hist.startConfig

\* C3 witness: the conflict error for an explicit directory, which is not
\* the freshly computed default
C3_Witness ==
    /\ Ended("resolver")
    /\ result.kind = "raise"
    /\ call.arg # None
    /\ hist.startConfig # None
    /\ ~hist.fresh

\* C4: with a persisted directory, a call whose resolution yields it again
\* (requested None or equal to it) returns it without error and the entry
\* holds the same value afterwards.
C4_ReuseKeepsConfig ==
    (/\ Ended("resolver")
     /\ hist.startConfig # None
     /\ (call.arg = None \/ call.arg = hist.startConfig))
    => /\ result.kind = "return"
       /\ result.value = hist.startConfig
       /\ config = hist.startConfig

\* C4 witness: the persisted directory is reused for requested = None, and
\* for a request equal to it
C4_Witness ==
    /\ Ended("resolver")
    /\ hist.startConfig # None
    /\ call.arg = None
    /\ result.kind = "return"

----------------------------------------------------------------------------
(* Properties of the manifest synchroniser inside fetch_fsaverage *)

\* a run of _manifest_check_download is in progress or has just ended
InSync ==
    pc \in {"sync_check", "download", "verify", "extract", "cleanup",
            "after_sync"}

\* every entry of manifest exists under dest in fs
Satisfied(fs, dest, manifest) ==
    \A n \in Range(manifest) : abspath(join(dest, n)) \in DOMAIN fs

\* the subjects directory of the current fetch_fsaverage call
CallDir == abspath(ResolvedDir)

\* destination and manifest the descriptor called name stands for
DestOf(name) ==
    IF name = "root.zip" THEN CallDir ELSE join(CallDir, <<"fsaverage">>)

ManifestOf(name) == IF name = "root.zip" THEN RootManifest ELSE BemManifest

\* every file of fs is in gs with the same content
Kept(fs, gs) ==
    \A p \in DOMAIN fs : p \in DOMAIN gs /\ gs[p] = fs[p]

\* C5: a synchroniser run that finds every manifest entry under its
\* destination starts no download and changes no file, and a fetch_fsaverage
\* call that starts with both manifests satisfied makes no network access.
C5_SatisfiedNoNetwork ==
    /\ (InSync /\ Satisfied(hist.syncFiles, sync.destination,
                            ReadManifest(sync.manifest)))
       => /\ sync.name \notin Range(hist.net)
          /\ files = hist.syncFiles
          /\ temp = NoArchive
          /\ syncErr = NoErr
    /\ (InSync /\ Satisfied(hist.syncFiles, DestOf(sync.name),
                            ManifestOf(sync.name)))
       => /\ sync.name \notin Range(hist.net)
          /\ files = hist.syncFiles
    /\ (/\ call.op = "fetch"
        /\ pc # "idle" \/ result.kind = "return"
        /\ Satisfied(hist.startFiles, DestOf("root.zip"), RootManifest)
        /\ Satisfied(hist.startFiles, DestOf("bem.zip"), BemManifest))
       => /\ hist.net = <<>>
          /\ files = hist.startFiles

\* C5 witness: fetch_fsaverage has returned from a call that started with
\* both manifests satisfied
C5_Witness ==
    /\ Ended("fetch")
    /\ result.kind = "return"
    /\ Satisfied(hist.startFiles, DestOf("root.zip"), RootManifest)
    /\ Satisfied(hist.startFiles, DestOf("bem.zip"), BemManifest)
    /\ Len(hist.checked) = 2
    /\ hist.net = <<>>

\* C6: a synchroniser run that found an entry missing and ended without
\* error leaves every manifest entry present under the destination, and
\* every file that existed before the run has its content of before.
C6_CompletedKeepsExisting ==
    (/\ pc = "after_sync"
     /\ syncErr = NoErr
     /\ ~Satisfied(hist.syncFiles, DestOf(sync.name), ManifestOf(sync.name)))
    => /\ Satisfied(files, DestOf(sync.name), ManifestOf(sync.name))
       /\ Kept(hist.syncFiles, files)
       /\ sync.destination = DestOf(sync.name)

\* C6 witness: a run has ended without error on a destination that held one
\* entry, placed by hand, and lacked another
C6_Witness ==
    /\ pc = "after_sync"
    /\ syncErr = NoErr
    /\ \E n, m \in Range(ManifestOf(sync.name)) :
         /\ abspath(join(sync.destination, n)) \in DOMAIN hist.syncFiles
         /\ files[abspath(join(sync.destination, n))] = "user"
         /\ abspath(join(sync.destination, m)) \notin DOMAIN hist.syncFiles
         /\ files[abspath(join(sync.destination, m))] = "released"

\* C7: extraction happens only after the hash check has passed; a run whose
\* archive fails the check leaves the files as they were, and the
\* fetch_fsaverage call it belongs to ends by raising that failure.
C7_MismatchExtractsNothing ==
    /\ pc = "extract" => verified /\ temp.hash = sync.hash_
    /\ \A p \in DOMAIN files : files[p] # "tampered"
    /\ (InSync /\ syncErr.type = "HashMismatch")
       => /\ files = hist.syncFiles
          /\ ~verified
    /\ \A i \in 1..Len(hist.failed) :
         hist.failed[i].e = "HashMismatch"
         => /\ hist.failed[i].d \notin Range(hist.verified)
            /\ i = Len(hist.failed)
            /\ Ended("fetch") => /\ result.kind = "raise"
                                 /\ result.err = Failure("HashMismatch")

\* C7 witness: fetch_fsaverage has ended after the archive of the second
\* descriptor failed the hash check
C7_Witness ==
    /\ Ended("fetch")
    /\ hist.failed = <<Event("HashMismatch", "bem.zip")>>
    /\ hist.verified = <<"root.zip">>

----------------------------------------------------------------------------
(* Properties of fetch_fsaverage as a whole *)

\* the call in progress repeats, with the same argument, the call that
\* returned just before it
Repeats(op) ==
    /\ call.op = op
    /\ prev.op = op
    /\ prev.arg = call.arg
    /\ prev.result.kind = "return"

\* C8: a fetch_fsaverage call that directly follows a successful call with
\* the same argument starts no download, changes no file or directory,
\* leaves the persisted entry as it was and returns what the first returned.
C8_SecondRunIdle ==
    /\ (Repeats("fetch") /\ (pc # "idle" \/ result.kind # "none"))
       => /\ hist.net = <<>>
          /\ hist.extracted = {}
          /\ files = hist.startFiles
          /\ dirs = hist.startDirs
          /\ config = hist.startConfig
          /\ temp = NoArchive
    /\ (Repeats("fetch") /\ Ended("fetch")) => result = prev.result

\* C8 witness: the second of two successive calls fetch_fsaverage(None) has
\* returned, the first having downloaded both archives
C8_Witness ==
    /\ Repeats("fetch")
    /\ Ended("fetch")
    /\ call.arg = None
    /\ Len(hist.checked) = 2
    /\ \A n \in Range(RootManifest) :
         files[abspath(join(DestOf("root.zip"), n))] = "released"

\* the files both manifests list, under the destinations of this call
DatasetFiles ==
    {abspath(join(DestOf("root.zip"), n)) : n \in Range(RootManifest)}
      \cup {abspath(join(DestOf("bem.zip"), n)) : n \in Range(BemManifest)}

\* C9: from no persisted entry and no dataset file, a fetch_fsaverage call
\* that returns has downloaded root then bem, verified both hashes, extracted
\* every manifest entry of both, and returns the absolute path of
\* <subjects_dir>/fsaverage, an existing directory; such a call never ends
\* with the conflict error.
C9_EndToEnd ==
    (/\ Ended("fetch")
     /\ hist.startConfig = None
     /\ DatasetFiles \cap DOMAIN hist.startFiles = {})
    => /\ result.kind = "raise" => result.err.type # "ValueError"
       /\ result.kind = "raise" => hist.failed # <<>>
       /\ result.kind = "return"
            => /\ hist.net = <<"root.zip", "bem.zip">>
               /\ hist.verified = <<"root.zip", "bem.zip">>
               /\ hist.extracted = DatasetFiles
               /\ \A p \in DatasetFiles :
                    p \in DOMAIN files /\ files[p] = "released"
               /\ result.value = join(abspath(ResolvedDir), <<"fsaverage">>)
               /\ IsAbs(result.value)
               /\ result.value \in dirs
               /\ config = ResolvedDir

\* C9 witness: such a call, made with a relative directory, has returned
C9_Witness ==
    /\ Ended("fetch")
    /\ hist.startConfig = None
    /\ DatasetFiles \cap DOMAIN hist.startFiles = {}
    /\ result.kind = "return"
    /\ call.arg = <<"r">>

\* C10: fetch_fsaverage returns only when every entry of the root manifest
\* exists under the subjects directory and every entry of the bem manifest
\* under its fsaverage directory; a call in which a download, a hash check
\* or an extraction failed ends by raising that failure.
C10_NoPartialSuccess ==
    /\ (Ended("fetch") /\ result.kind = "return")
       => /\ Satisfied(files, DestOf("root.zip"), RootManifest)
          /\ Satisfied(files, DestOf("bem.zip"), BemManifest)
          /\ Len(hist.checked) = 2
          /\ hist.failed = <<>>
    /\ (Ended("fetch") /\ hist.failed # <<>>)
       => /\ result.kind = "raise"
          /\ result.err = Failure(hist.failed[1].e)
          /\ Len(hist.failed) = 1

\* C10 witness: a call has ended in an extraction failure after one entry
\* of the archive was written
C10_Witness ==
    /\ Ended("fetch")
    /\ result.kind = "raise"
    /\ result.err = Failure("OSError")
    /\ hist.extracted # {}
    /\ ~Satisfied(files, DestOf("root.zip"), RootManifest)

----------------------------------------------------------------------------
(* Further properties of the path resolver *)

\* the resolver has returned: called directly, or by a fetch_fsaverage call
\* that is past line 68
ResolverReturned ==
    \/ Ended("resolver") /\ result.kind = "return"
    \/ call.op = "fetch" /\ pc = "makedirs"

\* what the resolver returned
ResolverValue == IF call.op = "fetch" THEN subjects_dir ELSE result.value

\* C11: called with no directory while nothing is persisted, the resolver
\* returns the base data directory joined with MNE-fsaverage-data, which
\* exists on return; after every return of the resolver the persisted entry
\* equals the returned value.
C11_DefaultPersisted ==
    /\ ResolverReturned => config = ResolverValue
    /\ ((ResolverEnded \/ ResolverReturned)
          /\ call.arg = None /\ hist.startConfig = None)
       => /\ ResolverReturned
          /\ ResolverValue = DefaultDir
          /\ abspath(DefaultDir) \in dirs
          /\ hist.cfgWrites = 1

\* C11 witness: the resolver has returned the default under a base data
\* directory taken from MNE_DATA, and the directory did not exist before
C11_Witness ==
    /\ Ended("resolver")
    /\ result.kind = "return"
    /\ call.arg = None
    /\ hist.startConfig = None
    /\ mne_data # None
    /\ result.value = join(mne_data, FolderName)
    /\ result.value \notin hist.startDirs

----------------------------------------------------------------------------
(* Further properties of the manifest synchroniser *)

\* positions at which no synchroniser run holds a downloaded archive: before
\* the download, and once the run has ended
NoArchivePositions ==
    {"idle", "makedirs", "loop", "sync_check", "download", "after_sync"}

\* C12: a temporary archive is removed before the run that downloaded it
\* ends, whether the run succeeds, fails the hash check or fails to extract:
\* no ended run still has it, and every archive present is eventually gone.
C12_TempRemoved ==
    /\ [](pc \in NoArchivePositions => temp = NoArchive)
    /\ (temp # NoArchive) ~> (temp = NoArchive)

\* C12 witness: a run has ended in an extraction failure, after its archive
\* was downloaded and verified
C12_Witness ==
    /\ pc = "after_sync"
    /\ syncErr = Failure("OSError")
    /\ sync.name \in Range(hist.verified)
    /\ temp = NoArchive

----------------------------------------------------------------------------
(* Order of the steps of fetch_fsaverage *)

\* a fetch_fsaverage call is in progress or has just ended
InFetch == call.op = "fetch" /\ (pc # "idle" \/ result.kind # "none")

\* the synchroniser invocations of the current call, in order
SyncEvents == SelectSeq(hist.events, LAMBDA x : x.e = "sync")

\* the descriptors in the order the call must take them
DescriptorOrder == <<"root.zip", "bem.zip">>

\* the arguments the synchroniser must get for the descriptor called name
ExpectedArgs(name) ==
    IF name = "root.zip"
    THEN [name |-> "root.zip", url |-> RootUrl, hash_ |-> RootHash,
          manifest |-> "root.txt", destination |-> CallDir]
    ELSE [name |-> "bem.zip", url |-> BemUrl, hash_ |-> BemHash,
          manifest |-> "bem.txt",
          destination |-> join(CallDir, <<"fsaverage">>)]

\* C13: a fetch_fsaverage call invokes the synchroniser on root and then on
\* bem, each at most once and one after the other, root with the absolute
\* subjects directory and bem with its fsaverage subdirectory as
\* destination; before the first invocation the subjects directory has been
\* resolved and persisted and the fsaverage directory created.
C13_TwoDescriptorsInOrder ==
    InFetch
    => /\ Len(SyncEvents) <= Len(DescriptorOrder)
       /\ \A i \in 1..Len(SyncEvents) : SyncEvents[i].d = DescriptorOrder[i]
       /\ \A i, j \in 1..Len(hist.events) :
            (i < j /\ hist.events[i] = Event("sync", "bem.zip"))
            => hist.events[j].d = "bem.zip"
       /\ Len(SyncEvents) >= 1
            => /\ hist.events[1] = Event("resolve", "")
               /\ hist.events[2] = Event("mkdir", "")
               /\ hist.events[3].e = "sync"
               /\ hist.cfgWrites = 1
               /\ config = ResolvedDir
               /\ join(CallDir, <<"fsaverage">>) \in dirs
       /\ InSync
            => /\ Len(SyncEvents) >= 1
               /\ sync.name = SyncEvents[Len(SyncEvents)].d
               /\ sync = ExpectedArgs(sync.name)
               /\ IsAbs(sync.destination)
       /\ result.kind = "return" => Len(SyncEvents) = 2

\* C13 witness: the bem descriptor is being checked after the root archive
\* was downloaded and extracted under a relative subjects directory
C13_Witness ==
    /\ InFetch
    /\ pc = "sync_check"
    /\ sync.name = "bem.zip"
    /\ hist.net = <<"root.zip">>
    /\ call.arg = <<"r">>
    /\ sync.destination = <<"/", "cwd", "r", "fsaverage">>

----------------------------------------------------------------------------
(* Files written by a synchroniser run *)

\* the files that exist now and did not when the current run started
Written == DOMAIN files \ DOMAIN hist.syncFiles

\* the manifest entries of the descriptor called name that were missing
\* under its destination when the current run started
MissingAtStart(name) ==
    {abspath(join(DestOf(name), n)) : n \in Range(ManifestOf(name))}
        \ DOMAIN hist.syncFiles

\* C14: a synchroniser run writes only manifest entries that were missing
\* under the destination when it checked, all of them when it ends without
\* error, and no other entry of the archive; files that existed keep their
\* content.
C14_WritesExactlyMissing ==
    (InFetch /\ InSync)
    => /\ Written \subseteq MissingAtStart(sync.name)
       /\ Kept(hist.syncFiles, files)
       /\ \A x \in ExtraMembers(sync.url) :
            abspath(join(DestOf(sync.name), x)) \notin Written
       /\ pc # "sync_check"
            => {abspath(join(DestOf(sync.name), n)) :
                  n \in hist.checked[Len(hist.checked)].need}
                 = MissingAtStart(sync.name)
       /\ (pc = "after_sync" /\ syncErr = NoErr)
            => Written = MissingAtStart(sync.name)

\* C14 witness: the root run has ended without error having written one
\* entry, the other being a file placed by hand, from an archive that also
\* holds entries the manifest does not list
C14_Witness ==
    /\ InFetch
    /\ pc = "after_sync"
    /\ syncErr = NoErr
    /\ sync.name = "root.zip"
    /\ Cardinality(Written) = 1
    /\ \E p \in DOMAIN hist.syncFiles :
         /\ hist.syncFiles[p] = "user"
         /\ p \in {abspath(join(DestOf("root.zip"), n)) :
                     n \in Range(RootManifest)}
    /\ ExtraMembers(sync.url) # {}

----------------------------------------------------------------------------
(* Failures inside fetch_fsaverage *)

\* the bem manifest's files under the fsaverage directory of this call
BemFiles ==
    {abspath(join(DestOf("bem.zip"), n)) : n \in Range(BemManifest)}

\* C15: when the run for root fails (transfer, hash check or extraction),
\* fetch_fsaverage raises that failure without attempting bem: no bem run is
\* started, no bem download, no bem file written.
C15_AbortOnRootFailure ==
    (InFetch /\ hist.failed # <<>> /\ hist.failed[1].d = "root.zip")
    => /\ Len(hist.failed) = 1
       /\ \A i \in 1..Len(hist.events) : hist.events[i].d # "bem.zip"
       /\ "bem.zip" \notin Range(hist.net)
       /\ Len(hist.checked) = 1
       /\ BemFiles \cap (DOMAIN files \ DOMAIN hist.startFiles) = {}
       /\ \/ pc \in {"cleanup", "after_sync"} /\ sync.name = "root.zip"
          \/ /\ Ended("fetch")
             /\ result.kind = "raise"
             /\ result.err = Failure(hist.failed[1].e)

\* C15 witness: fetch_fsaverage has raised after the root transfer failed,
\* and the bem files are absent
C15_Witness ==
    /\ Ended("fetch")
    /\ result.kind = "raise"
    /\ hist.failed = <<Event("TransportError", "root.zip")>>
    /\ BemFiles \cap DOMAIN files = {}

\* the fsaverage directory of this call
FsDir == join(CallDir, <<"fsaverage">>)

\* C16: the configuration write and the creation of the fsaverage directory
\* come before any network access and are not undone: from the first
\* download on, and after a call that failed while synchronising, the
\* resolved directory is persisted and the fsaverage directory exists; a
\* call writes the entry at most once.
C16_NoRollback ==
    /\ call.op \in {"resolver", "fetch"} => hist.cfgWrites <= 1
    /\ (InFetch /\ hist.net # <<>>)
       => /\ hist.cfgWrites = 1
          /\ config = ResolvedDir
          /\ FsDir \in dirs
          /\ \E i, j, k \in 1..Len(hist.events) :
               /\ i < j /\ j < k
               /\ hist.events[i].e = "resolve"
               /\ hist.events[j].e = "mkdir"
               /\ hist.events[k].e = "download"
               /\ \A m \in 1..(j - 1) : hist.events[m].e # "download"
    /\ (InFetch /\ hist.failed # <<>>)
       => /\ config = ResolvedDir
          /\ FsDir \in dirs
          /\ hist.cfgWrites = 1

\* C16 witness: a call that started with nothing persisted and no fsaverage
\* directory has ended in a failure of the bem run
C16_Witness ==
    /\ Ended("fetch")
    /\ result.kind = "raise"
    /\ hist.failed # <<>>
    /\ hist.failed[1].d = "bem.zip"
    /\ hist.startConfig = None
    /\ config = ResolvedDir
    /\ FsDir \notin hist.startDirs
    /\ FsDir \in dirs

----------------------------------------------------------------------------
(* The conflict error *)

\* C17: a fetch_fsaverage call that fails with the conflict error has no
\* effect: the entry is as before, no directory is created (neither the
\* requested one nor its fsaverage subdirectory), the synchroniser is not
\* invoked, nothing is downloaded and no file is written.
C17_ConflictNoSideEffects ==
    (Ended("fetch") /\ result.err.type = "ValueError")
    => /\ result.kind = "raise"
       /\ config = hist.startConfig
       /\ hist.cfgWrites = 0
       /\ dirs = hist.startDirs
       /\ files = hist.startFiles
       /\ hist.events = <<Event("resolve", "")>>
       /\ hist.checked = <<>>
       /\ hist.net = <<>>
       /\ hist.extracted = {}
       /\ temp = NoArchive

\* C17 witness: such a call has ended, and neither the requested directory
\* nor its fsaverage subdirectory exists
C17_Witness ==
    /\ Ended("fetch")
    /\ result.err.type = "ValueError"
    /\ abspath(call.arg) \notin dirs
    /\ join(abspath(call.arg), <<"fsaverage">>) \notin dirs

\* C18: the default directory is computed and created only in a call made
\* with no directory while nothing is persisted; a call made with no
\* directory never ends with the conflict error, which arises only for a
\* directory passed explicitly that differs from the persisted value.
C18_NoneNeverConflicts ==
    (call.op \in {"resolver", "fetch"} /\ (pc # "idle" \/ result.kind # "none"))
    => /\ hist.fresh <=> (call.arg = None /\ hist.startConfig = None)
       /\ (~hist.fresh /\ call.op = "resolver") => dirs = hist.startDirs
       /\ (~hist.fresh /\ abspath(DefaultDir) \notin hist.startDirs
             /\ call.arg # DefaultDir /\ config # DefaultDir)
          => abspath(DefaultDir) \notin dirs
       /\ call.arg = None => result.err.type # "ValueError"
       /\ result.err.type = "ValueError"
            => /\ call.arg # None
               /\ hist.startConfig # None
               /\ call.arg # hist.startConfig
               /\ result.err = ValueError(hist.startConfig, call.arg)

\* C18 witness: a call made with no directory has reused a persisted value
\* that is not the default, and the default directory does not exist
C18_Witness ==
    /\ Ended("fetch")
    /\ call.arg = None
    /\ hist.startConfig # None
    /\ hist.startConfig # DefaultDir
    /\ result.kind = "return"
    /\ abspath(DefaultDir) \notin dirs

====
